---- MODULE Spec2Model ----
(***************************************************************************)
(* jest-process-manager: setup / teardown of server processes around a     *)
(* test run (src/unnamed/part_001 is the module, src/unnamed/part_000      *)
(* holds the README and the constants it imports).                         *)
(*                                                                         *)
(* The controlling process is single threaded: every action below is one   *)
(* run-to-completion block of the code, from one await (or callback) to    *)
(* the next.  Collaborators (net bind, find-process, tree-kill, prompts,   *)
(* wait-on, the spawned children) answer nondeterministically.             *)
(*                                                                         *)
(* Indices are 1-based here (configs[1] is the code's index 0).  Each      *)
(* entry of one setup call is taken to name its own host:port, so occ[i]   *)
(* is the foreign process (if any) holding entry i's port.                 *)
(***************************************************************************)
EXTENDS Integers, Sequences, FiniteSets, TLC

\* ---------------------------------------------------------------- bounds
MaxEntries == 2        \* longest configuration array given to setup
MaxTeardowns == 2      \* teardown calls made by the caller
MaxDestroys == 4       \* destroy() calls those teardowns make in all
MaxSpawns == 2         \* processes spawned before setup is called once more

\* -------------------------------------------------------------- constants
ERROR_TIMEOUT == "ERROR_TIMEOUT"
ERROR_PORT_USED == "ERROR_PORT_USED"
ERROR_NO_COMMAND == "ERROR_NO_COMMAND"

\* Errors that carry no code of the package.
InvalidUsedPortAction == "InvalidUsedPortAction"   \* JestProcessManagerError without code
BindError == "BindError"            \* getIsPortTaken: reject() with no value
LookupError == "LookupError"        \* findProcess rejected
NoProcessFound == "TypeError"       \* portProcess is undefined: portProcess.name throws
KillError == "KillError"            \* pTreeKill rejected inside killProc
NoError == "none"

\* An object without keys: {}.
NoKeys == [k \in {} |-> 0]

DEFAULT_CONFIG ==
    [command |-> "npm run start", port |-> 3000, usedPortAction |-> "ask",
     options |-> NoKeys]

\* A JavaScript value used as a condition: '' and 0/null/undefined are falsy.
\* An explicitly supplied `port: undefined` (or null, or 0) is written 0.
TruthyString(s) == s # ""
TruthyNumber(n) == n # 0

\* { ...DEFAULT_CONFIG, ...providedConfig }: a key of the provided object wins,
\* also when its value is falsy; a key it does not have keeps the default.
MergeConfig(defaults, provided) ==
    [k \in DOMAIN defaults \cup DOMAIN provided |->
        IF k \in DOMAIN provided THEN provided[k] ELSE defaults[k]]

\* Own keys of the usedPortHandlers object literal.
UsedPortHandlerNames == {"error", "kill", "ask", "ignore"}
\* Property names every object literal inherits from Object.prototype;
\* "constructor" stands for them (its value, Object, is callable and returns).
InheritedNames == {"constructor"}

\* usedPortHandlers[config.usedPortAction]: a property read, so it also finds
\* inherited properties; undefined (falsy) for any other name.
LookupUsedPortHandler(action) ==
    action \in UsedPortHandlerNames \cup InheritedNames

\* What `await usedPortHandler()` does first, by handler.
UsedPortHandlerStepMutant(action) ==
    CASE action = "error" -> "return"
      [] action = "kill" -> "findProcess"
      [] action = "ask" -> "prompt"
      [] OTHER -> "return"
UsedPortHandlerStep(action) ==
    CASE action = "error" -> "throw"
      [] action = "kill" -> "findProcess"
      [] action = "ask" -> "prompt"
      [] action = "ignore" -> "return"
      [] OTHER -> "return"

\* The spawn-or-skip decision:
\* if (config.usedPortAction === 'ignore' && isPortTaken) skip else runServer.
SkipsSpawnMutant(action, isPortTaken) == FALSE
SkipsSpawn(action, isPortTaken) == action = "ignore" /\ isPortTaken

\* ask(): if (answers.kill) lookup-and-kill else process.exit(1).
AfterAnswerMutant(kill) == "findProcess"
AfterAnswer(kill) == IF kill THEN "findProcess" ELSE "exit"

\* killProc: `await pTreeKill(proc.pid)` rethrows a failed kill.
KillProcThrowsMutant(killOk) == FALSE
KillProcThrows(killOk) == ~killOk

\* The env option of spawn in runServer:
\* { ...process.env, ...(config.options?.env ? config.options.env : {}) }.
\* An options object without an env key has env undefined (falsy).
SpawnEnvMutant(processEnv, options) ==
    IF "env" \in DOMAIN options THEN options.env ELSE processEnv
SpawnEnv(processEnv, options) ==
    MergeConfig(processEnv, IF "env" \in DOMAIN options THEN options.env ELSE NoKeys)

\* servers[index] = spawnd(...): the key runServer writes for entry i.
RegistryKeyMutant(i) == 1
RegistryKey(i) == i

\* destroy() before its tree-kill: removeExitHandler(), then
\* proc.removeAllListeners('exit') and ('error'): no hook is left.
HooksAfterDestroyMutant(hooks) == hooks
HooksAfterDestroy(hooks) == FALSE

\* onExit(code => cleanExit(typeof code === 'number' ? code : 1)).
OnExitCode(isNumber, code) == IF isNumber THEN code ELSE 1

\* destroy(): pTreeKill(proc.pid).catch(() => {}) resolves either way.
DestroySettlesMutant(killOk) == IF killOk THEN "resolved" ELSE "rejected"
DestroySettles(killOk) == "resolved"

\* ------------------------------------------------------------------ inputs
Commands == {"", "cmd"}
PortValues == {0, 3000}
ActionValues == {"ask", "error", "ignore", "kill", "bogus", "constructor"}

OptionalKey(key, values) == {NoKeys} \cup {[k \in {key} |-> v] : v \in values}

\* Every object a caller can pass: each key present or not.
ProvidedConfigs ==
    {a @@ b @@ c : a \in OptionalKey("command", Commands),
                   b \in OptionalKey("port", PortValues),
                   c \in OptionalKey("usedPortAction", ActionValues)}

\* Entries of an array call: a command without a port, or a command with a
\* port and the default policy spelled out.
ListConfigs ==
    {[command |-> "cmd", port |-> 0],
     [command |-> "cmd", port |-> 3000, usedPortAction |-> "ask"]}

\* process.env of the controlling process, and the env mappings a caller
\* may put in options: over the same few names, so that a mapping can
\* override, add or leave alone.
EnvNames == {"PATH", "FOO"}
EnvValues == {"inherited", "bar"}
EnvMaps == UNION {[names -> EnvValues] : names \in SUBSET EnvNames}
InheritedEnv == [name \in EnvNames |-> "inherited"]
ProcessEnvs == EnvMaps
SpawnOptions == {NoKeys} \cup {[k \in {"env"} |-> e] : e \in EnvMaps}
EnvConfigs ==
    {[command |-> "cmd", port |-> p, usedPortAction |-> "ask", options |-> o] :
        p \in PortValues, o \in SpawnOptions}

VARIABLES
    configs,     \* the argument of setup, as an array
    occ,         \* occ[i]: foreign process on entry i's port: "none", "alive", "dead"
    entry,       \* entry[i]: progress of setupJestServer(configs[i], i)
    servers,     \* the registry: servers[i] is a pid, 0 for a hole
    procs,       \* spawned children, by pid
    setupState,  \* promise returned by setup
    setupErr,    \* what it rejected with
    td,          \* teardown calls
    cleanExits,  \* pids whose cleanExit tree-kill is in flight
    ctl          \* the controlling process

vars == <<configs, occ, entry, servers, procs, setupState, setupErr, td, cleanExits, ctl>>

Indices == 1..Len(configs)
Pids == 1..Len(procs)
Config(i) == MergeConfig(DEFAULT_CONFIG, configs[i])

\* No child event has ended the controlling process.
NoEvent == [kind |-> "none", code |-> 0]

NewEntry ==
    [pc |-> "init", err |-> NoError, probed |-> FALSE, taken |-> FALSE,
     asked |-> FALSE, answer |-> FALSE, looked |-> FALSE, killSent |-> FALSE,
     waited |-> FALSE, pid |-> 0]

\* The part of the state setupJestServer changes, as one value.
World ==
    [entry |-> entry, servers |-> servers, procs |-> procs, occ |-> occ,
     setupState |-> setupState, setupErr |-> setupErr]

Commit(w) ==
    /\ entry' = w.entry
    /\ servers' = w.servers
    /\ procs' = w.procs
    /\ occ' = w.occ
    /\ setupState' = w.setupState
    /\ setupErr' = w.setupErr

\* setupJestServer(i) throws: its promise rejects; Promise.all rejects with the
\* first rejection and later ones change nothing.
ThrowMutant(w, i, err) ==
    [w EXCEPT !.entry[i].pc = "failed",
              !.entry[i].err = err,
              !.setupState = IF @ = "pending" THEN "rejected" ELSE @,
              !.setupErr = err]
Throw(w, i, err) ==
    [w EXCEPT !.entry[i].pc = "failed",
              !.entry[i].err = err,
              !.setupState = IF @ = "pending" THEN "rejected" ELSE @,
              !.setupErr = IF w.setupState = "pending" THEN err ELSE @]

\* setupJestServer(i) returns: Promise.all resolves once every entry has.
ReturnMutant(w, i) ==
    [w EXCEPT !.entry[i].pc = "ready",
              !.setupState = IF @ = "pending" THEN "resolved" ELSE @]
Return(w, i) ==
    LET e == [w.entry EXCEPT ![i].pc = "ready"] IN
    [w EXCEPT !.entry = e,
              !.setupState = IF @ = "pending" /\ \A j \in DOMAIN e : e[j].pc = "ready"
                             THEN "resolved" ELSE @]

\* spawnd(): the child runs, with its exit/error listeners and the
\* controlling-process exit handler registered.
NewProc(i) ==
    [owner |-> i, status |-> "running", hooks |-> TRUE, stops |-> 0,
     env |-> SpawnEnv(ctl.env, Config(i).options)]

\* runServer(config, index), then what follows it in setupJestServer:
\* the readiness wait when a port is configured, the return otherwise.
RunServerThen(w, i, port) ==
    IF ~TruthyString(Config(i).command)
    THEN Throw(w, i, ERROR_NO_COMMAND)
    ELSE LET pid == Len(w.procs) + 1
             s == [w EXCEPT !.procs = Append(@, NewProc(i)),
                            !.servers[RegistryKey(i)] = pid,
                            !.entry[i].pid = pid]
         IN IF TruthyNumber(port)
            THEN [s EXCEPT !.entry[i].pc = "waiting", !.entry[i].waited = TRUE]
            ELSE Return(s, i)

\* From the end of `await usedPortHandler()` to `await waitOn(opts)`.
SpawnOrSkip(w, i) ==
    IF SkipsSpawn(Config(i).usedPortAction, w.entry[i].taken)
    THEN [w EXCEPT !.entry[i].pc = "waiting", !.entry[i].waited = TRUE]
    ELSE RunServerThen(w, i, Config(i).port)

\* setupJestServer up to its first await.
SetupJestServerStartMutant(w, i) ==
    IF ~LookupUsedPortHandler(Config(i).usedPortAction)
    THEN Throw(w, i, InvalidUsedPortAction)
    ELSE RunServerThen(w, i, Config(i).port)
SetupJestServerStart(w, i) ==
    IF ~LookupUsedPortHandler(Config(i).usedPortAction)
    THEN Throw(w, i, InvalidUsedPortAction)
    ELSE IF TruthyNumber(Config(i).port)
         THEN [w EXCEPT !.entry[i].pc = "probing", !.entry[i].probed = TRUE]
         ELSE RunServerThen(w, i, Config(i).port)

\* configs.map((c, index) => setupJestServer(c, index)): in index order, each
\* up to its first await, before anything else runs.
RECURSIVE MapSetupJestServer(_, _)
MapSetupJestServer(w, i) ==
    IF i > Len(configs) THEN w
    ELSE MapSetupJestServer(SetupJestServerStart(w, i), i + 1)

TypeOK ==
    /\ setupState \in {"idle", "pending", "resolved", "rejected"}
    /\ ctl.state \in {"running", "exited"}
    /\ td.state \in {"idle", "running", "done", "rejected"}
    /\ ctl.cause \in {"none", "exit", "signal", "child", "declined"}
    /\ \A i \in Indices : servers[i] \in 0..Len(procs)

InitWith(cs, envs) ==
    /\ configs \in cs
    /\ occ \in [1..Len(configs) -> {"none", "alive"}]
    /\ \A i \in 1..Len(configs) :
          occ[i] = "alive" => TruthyNumber(MergeConfig(DEFAULT_CONFIG, configs[i]).port)
    /\ entry = [i \in 1..Len(configs) |-> NewEntry]
    /\ servers = [i \in 1..Len(configs) |-> 0]
    /\ procs = <<>>
    /\ setupState = "idle"
    /\ setupErr = NoError
    /\ td = [state |-> "idle", calls |-> 0, pending |-> {}, snapshot |-> {},
             failed |-> FALSE, command |-> FALSE, ran |-> FALSE]
    /\ cleanExits = {}
    /\ \E e \in envs : ctl = [state |-> "running", code |-> 0, cause |-> "none", env |-> e,
                             event |-> NoEvent]

\* setup(config): one configuration object, any shape.
Init == InitWith({<<c>> : c \in ProvidedConfigs}, {InheritedEnv})

\* setup([config, ...]): an array of well-formed entries.
InitList == InitWith(UNION {[1..n -> ListConfigs] : n \in 1..MaxEntries}, {InheritedEnv})

\* setup(config) with spawn options: every inherited environment against
\* every env mapping in the options.
InitEnv == InitWith({<<c>> : c \in EnvConfigs}, ProcessEnvs)

Running == ctl.state = "running"

\* export async function setup(providedConfigs)
Setup ==
    /\ Running
    /\ setupState = "idle"
    /\ Commit(MapSetupJestServer([World EXCEPT !.setupState = "pending"], 1))
    /\ UNCHANGED <<configs, td, cleanExits, ctl>>

\* Something holds entry i's port: the foreign process, or the entry's child.
PortBound(w, i) ==
    \/ w.occ[i] = "alive"
    \/ \E p \in DOMAIN w.procs :
          w.procs[p].owner = i /\ w.procs[p].status = "listening"

\* getIsPortTaken settles, and setupJestServer runs on to its next await.
\* outcome: "taken" (EADDRINUSE), "free" (listening), "error" (another bind error).
AfterProbe(w, i, outcome) ==
    IF outcome = "error" THEN Throw(w, i, BindError)
    ELSE IF outcome = "free" THEN SpawnOrSkip(w, i)
    ELSE LET t == [w EXCEPT !.entry[i].taken = TRUE]
             step == UsedPortHandlerStep(Config(i).usedPortAction)
         IN CASE step = "throw" -> Throw(t, i, ERROR_PORT_USED)
              [] step = "findProcess" ->
                    [t EXCEPT !.entry[i].pc = "lookup", !.entry[i].looked = TRUE]
              [] step = "prompt" ->
                    [t EXCEPT !.entry[i].pc = "prompting", !.entry[i].asked = TRUE]
              [] OTHER -> SpawnOrSkip(t, i)

ProbeDone(i) ==
    /\ Running
    /\ entry[i].pc = "probing"
    /\ \E outcome \in {"taken", "free", "error"} :
          /\ outcome = "taken" => PortBound(World, i)
          /\ outcome = "free" => ~PortBound(World, i)
          /\ Commit(AfterProbe(World, i, outcome))
    /\ UNCHANGED <<configs, td, cleanExits, ctl>>

\* process.exit(code) / exit(code): the controlling process ends.  The exit
\* handlers registered by spawnd start a tree-kill for every child not yet
\* destroyed; whether such a kill takes effect before the process is gone
\* is up to the platform, so any subset of those children dies.
ProcessExit(code, cause, ev) ==
    /\ ctl' = [ctl EXCEPT !.state = "exited", !.code = code, !.cause = cause,
                          !.event = ev]
    /\ \E K \in SUBSET {p \in Pids : procs[p].hooks /\ procs[p].status # "dead"} :
          procs' = [p \in Pids |->
                      IF p \in K THEN [procs[p] EXCEPT !.status = "dead"] ELSE procs[p]]

\* The operator answers the confirmation of usedPortHandlers.ask.
PromptDone(i) ==
    /\ Running
    /\ entry[i].pc = "prompting"
    /\ \E kill \in BOOLEAN :
          IF AfterAnswer(kill) = "exit"
          THEN /\ entry' = [entry EXCEPT ![i].answer = kill, ![i].pc = "declined"]
               /\ ProcessExit(1, "declined", NoEvent)
               /\ cleanExits' = {}
               /\ UNCHANGED <<servers, occ, setupState, setupErr>>
          ELSE /\ entry' = [entry EXCEPT ![i].answer = kill, ![i].pc = "lookup",
                                         ![i].looked = TRUE]
               /\ UNCHANGED <<servers, occ, setupState, setupErr, procs, ctl, cleanExits>>
    /\ UNCHANGED <<configs, td>>

\* findProcess('port', config.port) settles: a process ("found"), an empty
\* list ("empty": portProcess.name throws), or a rejection ("reject").
AfterLookup(w, i, outcome) ==
    CASE outcome = "found" ->
            [w EXCEPT !.entry[i].pc = "killing", !.entry[i].killSent = TRUE]
      [] outcome = "empty" -> Throw(w, i, NoProcessFound)
      [] OTHER -> Throw(w, i, LookupError)

LookupDone(i) ==
    /\ Running
    /\ entry[i].pc = "lookup"
    /\ \E outcome \in {"found", "empty", "reject"} :
          /\ outcome = "found" => occ[i] = "alive"
          /\ Commit(AfterLookup(World, i, outcome))
    /\ UNCHANGED <<configs, td, cleanExits, ctl>>

\* pTreeKill(proc.pid) of killProc settles.
AfterKillProc(w, i, killOk) ==
    LET k == [w EXCEPT !.occ[i] = IF killOk THEN "dead" ELSE @] IN
    IF KillProcThrows(killOk) THEN Throw(k, i, KillError) ELSE SpawnOrSkip(k, i)

KillDone(i) ==
    /\ Running
    /\ entry[i].pc = "killing"
    /\ \E killOk \in BOOLEAN : Commit(AfterKillProc(World, i, killOk))
    /\ UNCHANGED <<configs, td, cleanExits, ctl>>

\* waitOn(opts) settles: it resolves only if the resource is reachable, and
\* rejects when the timeout comes first.
AfterWaitOnMutant(w, i, ok) ==
    IF ok THEN Return(w, i) ELSE w
AfterWaitOn(w, i, ok) ==
    IF ok THEN Return(w, i) ELSE Throw(w, i, ERROR_TIMEOUT)

WaitDone(i) ==
    /\ Running
    /\ entry[i].pc = "waiting"
    /\ \E ok \in BOOLEAN :
          /\ ok => PortBound(World, i)
          /\ Commit(AfterWaitOn(World, i, ok))
    /\ UNCHANGED <<configs, td, cleanExits, ctl>>

\* A spawned child starts listening on its entry's port.  Only the readiness
\* wait of its entry observes that, so it is followed while that wait lasts.
ChildListens(p) ==
    /\ Running
    /\ procs[p].status = "running"
    /\ entry[procs[p].owner].pc = "waiting"
    /\ occ[procs[p].owner] # "alive"
    /\ procs' = [procs EXCEPT ![p].status = "listening"]
    /\ UNCHANGED <<configs, occ, entry, servers, setupState, setupErr, td, cleanExits, ctl>>

ExitCodes == {0, 1}

\* A spawned child exits by itself while its 'exit' listener is registered:
\* proc.on('exit', cleanExit) starts treeKill(proc.pid, () => exit(code)).
\* (Once destroy has removed the listener nothing observes such an exit.)
\* What the child emitted is first seen when the callback passes the code
\* on, so it is drawn there.
ChildExits(p) ==
    /\ Running
    /\ procs[p].status # "dead"
    /\ procs[p].hooks
    /\ procs' = [procs EXCEPT ![p].status = "dead"]
    /\ cleanExits' = cleanExits \cup {p}
    /\ UNCHANGED <<configs, occ, entry, servers, setupState, setupErr, td, ctl>>

\* What a child emits when it ends by itself: 'exit' with its exit code, or
\* 'error'.
ExitEvents == {[kind |-> "exit", code |-> c] : c \in ExitCodes}
ErrorEvents == {[kind |-> "error", code |-> 0]}

\* proc.on('exit', cleanExit) and proc.on('error', () => cleanExit(1)): the
\* code cleanExit hands to exit().
CleanExitCodeMutant(ev) == ev.code
CleanExitCode(ev) == IF ev.kind = "error" THEN 1 ELSE ev.code

\* The callback of cleanExit's treeKill: exit(code).  The callbacks of the
\* other tree-kills in flight die with the process.
CleanExitCallback(events) ==
    /\ Running
    /\ \E p \in cleanExits, ev \in events :
          /\ cleanExits' = {}
          /\ ProcessExit(CleanExitCode(ev), "child", ev)
    /\ UNCHANGED <<configs, occ, entry, servers, setupState, setupErr, td>>

\* ... of a cleanExit the child's 'exit' started.
CleanExitDone == CleanExitCallback(ExitEvents)

\* ... of a cleanExit the child's 'error' started.
CleanErrorDone == CleanExitCallback(ErrorEvents)

\* Handles in the registry (servers.map skips the holes).
RegisteredMutant == {servers[i] : i \in Indices \cap {1}} \ {0}
Registered == {servers[i] : i \in Indices} \ {0}

\* destroy() calls made so far, over the first n processes.
RECURSIVE DestroyCalls(_)
DestroyCalls(n) == IF n = 0 THEN 0 ELSE procs[n].stops + DestroyCalls(n - 1)

\* export async function teardown(), called by the caller once setup has
\* settled: every handle's destroy() runs up to its pTreeKill: exit handler
\* and listeners removed, tree-kill started.  The function declares no
\* parameter: an argument (withCommand) is recorded and changes nothing.
TeardownCall(withCommand) ==
    /\ Running
    /\ setupState \in {"resolved", "rejected"}
    /\ td.state \in {"idle", "done"}
    /\ td.calls < MaxTeardowns
    /\ DestroyCalls(Len(procs)) + Cardinality(Registered) <= MaxDestroys
    /\ procs' = [p \in Pids |->
                   IF p \in Registered
                   THEN [procs[p] EXCEPT !.hooks = HooksAfterDestroy(@), !.stops = @ + 1]
                   ELSE procs[p]]
    /\ td' = [state |-> IF Registered = {} THEN "done" ELSE "running",
              calls |-> td.calls + 1,
              pending |-> Registered,
              snapshot |-> Registered,
              failed |-> FALSE,
              command |-> withCommand,
              ran |-> FALSE]
    /\ UNCHANGED <<configs, occ, entry, servers, setupState, setupErr, cleanExits, ctl>>

\* teardown()
Teardown == TeardownCall(FALSE)

\* teardown('some command'), as src/types.d.ts declares it.
TeardownCommand == TeardownCall(TRUE)

\* pTreeKill(proc.pid) of one destroy() settles; Promise.all of teardown
\* resolves with the last of them, and rejects with the first rejection.
\* A child killed here emits 'exit': a listener still registered on it would
\* run cleanExit.
TreeKillDone(p) ==
    /\ Running
    /\ td.state = "running"
    /\ p \in td.pending
    /\ \E killOk \in BOOLEAN :
          /\ procs' = [procs EXCEPT ![p].status = IF killOk THEN "dead" ELSE @]
          /\ cleanExits' = IF killOk /\ procs[p].status # "dead" /\ procs[p].hooks
                           THEN cleanExits \cup {p} ELSE cleanExits
          /\ td' = [td EXCEPT
                      !.pending = @ \ {p},
                      !.failed = @ \/ ~killOk,
                      !.state = IF DestroySettles(killOk) = "rejected" THEN "rejected"
                                ELSE IF td.pending = {p} THEN "done" ELSE @]
    /\ UNCHANGED <<configs, occ, entry, servers, setupState, setupErr, ctl>>

\* The controlling process ends while the module is loaded: the test runner
\* calls process.exit(code), or a signal arrives (the exit handlers then get
\* a code that is no number).  After a signal the process ends with the code
\* cleanExit passes to exit() if a tree-kill callback still runs, and by the
\* signal itself (written -1) if none does.
ControllerExits ==
    /\ Running
    /\ \/ \E code \in ExitCodes : ProcessExit(OnExitCode(TRUE, code), "exit", NoEvent)
       \/ \E final \in {OnExitCode(FALSE, 0), -1} : ProcessExit(final, "signal", NoEvent)
    /\ cleanExits' = {}
    /\ UNCHANGED <<configs, occ, entry, servers, setupState, setupErr, td>>

Next ==
    \/ Setup
    \/ \E i \in Indices : ProbeDone(i)
    \/ \E i \in Indices : PromptDone(i)
    \/ \E i \in Indices : LookupDone(i)
    \/ \E i \in Indices : KillDone(i)
    \/ \E i \in Indices : WaitDone(i)
    \/ \E p \in Pids : ChildListens(p)
    \/ \E p \in Pids : ChildExits(p)
    \/ CleanExitDone
    \/ Teardown
    \/ \E p \in Pids : TreeKillDone(p)

\* What the caller and the outside may do besides: hand teardown a command,
\* end the controlling process.
NextCaller ==
    \/ Next
    \/ TeardownCommand
    \/ ControllerExits

Spec == Init /\ [][Next]_vars
SpecList == InitList /\ [][Next]_vars
SpecCaller == Init /\ [][NextCaller]_vars
SpecEnv == InitEnv /\ [][Next]_vars

\* setup(providedConfigs) called once more, with the same configuration,
\* after the earlier call has settled and no teardown is under way: the
\* module's servers array is the one the earlier call wrote.
SetupAgain ==
    /\ Running
    /\ setupState \in {"resolved", "rejected"}
    /\ td.state # "running"
    /\ Len(procs) < MaxSpawns
    /\ Commit(MapSetupJestServer(
            [World EXCEPT !.setupState = "pending",
                          !.setupErr = NoError,
                          !.entry = [i \in Indices |-> NewEntry]], 1))
    /\ UNCHANGED <<configs, td, cleanExits, ctl>>

\* A child may also emit 'error'.
NextChild ==
    \/ Next
    \/ CleanErrorDone

SpecChild == Init /\ [][NextChild]_vars

NextAgain ==
    \/ Next
    \/ SetupAgain

SpecAgain == Init /\ [][NextAgain]_vars

\* An await of setupJestServer settles: the bind attempt ends, the operator
\* answers, findProcess and tree-kill return, waitOn resolves or times out.
SettleStep ==
    \E i \in Indices :
        ProbeDone(i) \/ PromptDone(i) \/ LookupDone(i) \/ KillDone(i) \/ WaitDone(i)

\* setup(config) where no await is left pending for ever.
SpecLive == Init /\ [][Next]_vars /\ WF_vars(SettleStep)

\* ------------------------------------------------------------------ claims
Started(i) == entry[i].pc # "init"
Settled(i) == entry[i].pc \in {"ready", "failed"}
Supplied(i, key) == key \in DOMAIN configs[i]
PortTakenAtProbe(i) == entry[i].taken
ChildAlive(i) == entry[i].pid # 0 /\ procs[entry[i].pid].status # "dead"

\* C1: an entry whose configuration supplies no port (the key is missing or
\* its value is undefined) is never probed and never waits for readiness,
\* and it is ready as soon as its process is spawned.
C1_NoPortNoProbe ==
    \A i \in Indices :
        (Started(i) /\ (~Supplied(i, "port") \/ ~TruthyNumber(configs[i].port))) =>
            /\ ~entry[i].probed
            /\ ~entry[i].waited
            /\ (entry[i].pid # 0 => entry[i].pc = "ready")

\* C2: an entry whose command is empty or absent never spawns or registers a
\* process, never becomes ready, and fails with ERROR_NO_COMMAND and nothing
\* else.
C2_NoCommandFails ==
    \A i \in Indices :
        (Started(i) /\ (~Supplied(i, "command") \/ ~TruthyString(configs[i].command))) =>
            /\ entry[i].pid = 0
            /\ servers[i] = 0
            /\ entry[i].pc # "ready"
            /\ (entry[i].pc = "failed" => entry[i].err = ERROR_NO_COMMAND)

\* C3: once an entry whose port was free at the probe has failed with
\* ERROR_TIMEOUT, the process spawned for it is no longer running.
C3_TimeoutLeavesNothing ==
    \A i \in Indices :
        (entry[i].probed /\ ~PortTakenAtProbe(i)
            /\ entry[i].pc = "failed" /\ entry[i].err = ERROR_TIMEOUT) =>
            ~ChildAlive(i)

\* C4: port occupied at the probe and policy `error`: the entry has failed
\* with ERROR_PORT_USED (and so has setup, for a single configuration);
\* nothing was spawned or registered, no prompt, lookup or kill was made and
\* no readiness wait was started.
C4_ErrorPolicyAborts ==
    \A i \in Indices :
        (Config(i).usedPortAction = "error" /\ PortTakenAtProbe(i)) =>
            /\ entry[i].pc = "failed"
            /\ entry[i].err = ERROR_PORT_USED
            /\ (Len(configs) = 1 => setupState = "rejected" /\ setupErr = ERROR_PORT_USED)
            /\ entry[i].pid = 0
            /\ servers[i] = 0
            /\ ~entry[i].asked
            /\ ~entry[i].looked
            /\ ~entry[i].killSent
            /\ ~entry[i].waited

C4_Witness ==
    \E i \in Indices :
        /\ Config(i).usedPortAction = "error"
        /\ PortTakenAtProbe(i)
        /\ entry[i].pc = "failed"
        /\ setupState = "rejected"

\* C5: port occupied at the probe and policy `ignore`: nothing is spawned and
\* no handle is written at the entry's index, the readiness wait is started,
\* and the entry ends ready or failed with ERROR_TIMEOUT as that wait decides.
C5_IgnorePolicySkipsSpawn ==
    \A i \in Indices :
        (Config(i).usedPortAction = "ignore" /\ PortTakenAtProbe(i)) =>
            /\ entry[i].pid = 0
            /\ servers[i] = 0
            /\ Registered = {}
            /\ entry[i].waited
            /\ ~entry[i].looked
            /\ entry[i].pc \in {"waiting", "ready", "failed"}
            /\ (entry[i].pc = "failed" => entry[i].err = ERROR_TIMEOUT)

C5_Witness ==
    \E i \in Indices :
        /\ Config(i).usedPortAction = "ignore"
        /\ PortTakenAtProbe(i)
        /\ entry[i].pc = "ready"
        /\ setupState = "resolved"
        /\ procs = <<>>

\* C6: port occupied at the probe and policy `kill`: whenever the entry's
\* process exists, the occupant was looked up, its kill was issued and
\* confirmed, and it is dead; when the lookup or the kill failed the entry
\* has no process.
C6_KillBeforeSpawn ==
    \A i \in Indices :
        (Config(i).usedPortAction = "kill" /\ PortTakenAtProbe(i)) =>
            /\ (entry[i].pid # 0 =>
                    entry[i].looked /\ entry[i].killSent /\ occ[i] = "dead")
            /\ (occ[i] = "alive" => entry[i].pid = 0 /\ servers[i] = 0)
            /\ (entry[i].err \in {LookupError, NoProcessFound, KillError} =>
                    entry[i].pid = 0 /\ servers[i] = 0)
            /\ ~entry[i].asked

C6_Witness ==
    \E i \in Indices :
        /\ Config(i).usedPortAction = "kill"
        /\ PortTakenAtProbe(i)
        /\ entry[i].pid # 0
        /\ occ[i] = "dead"

\* C7: port occupied at the probe and policy `ask`: the prompt is raised;
\* a process exists for the entry only after the answer yes, the lookup and
\* the confirmed kill of the occupant; after the answer no the controlling
\* process has exited with code 1 and the entry has no process.
C7_AskPolicy ==
    \A i \in Indices :
        (Config(i).usedPortAction = "ask" /\ PortTakenAtProbe(i)) =>
            /\ entry[i].asked
            /\ (entry[i].looked => entry[i].answer)
            /\ (entry[i].pid # 0 =>
                    /\ entry[i].answer
                    /\ entry[i].looked
                    /\ entry[i].killSent
                    /\ occ[i] = "dead")
            /\ (entry[i].err \in {LookupError, NoProcessFound, KillError} =>
                    entry[i].pid = 0 /\ servers[i] = 0)
            /\ ((entry[i].pc # "prompting" /\ ~entry[i].answer) =>
                    /\ ctl.state = "exited"
                    /\ ctl.code = 1
                    /\ entry[i].pid = 0
                    /\ servers[i] = 0
                    /\ ~entry[i].looked
                    /\ ~entry[i].waited)

C7_Witness ==
    \E i \in Indices :
        /\ Config(i).usedPortAction = "ask"
        /\ PortTakenAtProbe(i)
        /\ entry[i].answer
        /\ entry[i].pid # 0
        /\ entry[i].pc = "ready"

\* C8: an entry whose policy is none of ask, error, ignore, kill has failed
\* with the configuration error as soon as it was started: no probe, no
\* spawn, no readiness wait.
C8_InvalidPolicyFailsFast ==
    \A i \in Indices :
        (Started(i) /\ Config(i).usedPortAction \notin {"ask", "error", "ignore", "kill"}) =>
            /\ entry[i].pc = "failed"
            /\ entry[i].err = InvalidUsedPortAction
            /\ ~entry[i].probed
            /\ ~entry[i].waited
            /\ entry[i].pid = 0

\* C9: teardown never rejects, the registry is empty once a teardown has
\* completed, and no handle is stopped a second time by a second call.
C9_TeardownIdempotent ==
    /\ td.state # "rejected"
    /\ ((td.calls > 0 /\ td.state = "done") => Registered = {})
    /\ \A p \in Pids : procs[p].stops <= 1

\* C10: teardown never rejects; every handle that was in the registry when
\* it was called has had stop invoked (its exit hooks are removed), also when
\* the tree-kill of another handle failed; and the call is complete exactly
\* when every tree-kill it started has settled.
C10_TeardownStopsAll ==
    /\ td.state # "rejected"
    /\ (td.calls > 0 =>
            /\ \A p \in td.snapshot : procs[p].stops > 0 /\ ~procs[p].hooks
            /\ (td.state = "done" <=> td.pending = {}))

C10_Witness ==
    /\ td.state = "done"
    /\ \E p, q \in td.snapshot :
          /\ p # q
          /\ procs[p].status # "dead"
          /\ procs[q].status = "dead"
          /\ procs[q].stops > 0

Spawned(i) == entry[i].pid # 0

\* C11: once setup has resolved, the registry holds exactly one handle per
\* spawned entry, at that entry's index, each handle its own process; and
\* when a teardown that follows has completed without a failed kill, no
\* process spawned by that setup is still running.
C11_RoundTrip ==
    setupState = "resolved" =>
        /\ \A i \in Indices :
              /\ servers[i] = entry[i].pid
              /\ Spawned(i) => procs[servers[i]].owner = i
        /\ \A p \in Pids : servers[procs[p].owner] = p
        /\ Cardinality(Registered) = Cardinality({i \in Indices : Spawned(i)})
        /\ (td.state = "done" /\ ~td.failed =>
                \A p \in Pids : procs[p].status = "dead")

C11_Witness ==
    /\ setupState = "resolved"
    /\ td.state = "done"
    /\ ~td.failed
    /\ Len(procs) = 2
    /\ Cardinality(td.snapshot) = 2
    /\ \A p \in Pids : procs[p].status = "dead" /\ procs[p].stops = 1

\* C12: setup starts every entry in its first step, an entry with no port
\* to wait for is spawned there whatever the others do, and the promise of
\* setup is resolved only in states where every entry is ready.
C12_ResolvesWhenAllReady ==
    /\ setupState = "resolved" => \A i \in Indices : entry[i].pc = "ready"
    /\ setupState # "idle" =>
          \A i \in Indices :
              /\ Started(i)
              /\ ~TruthyNumber(Config(i).port) => Spawned(i)

\* Two entries spawned and both still waiting for readiness: neither waited
\* for the other, and setup is still pending.
C12_Witness ==
    /\ setupState = "pending"
    /\ \E i, j \in Indices :
          /\ i < j
          /\ Spawned(i) /\ entry[i].pc = "waiting"
          /\ Spawned(j) /\ entry[j].pc = "waiting"

\* C13: the first entry to fail rejects setup with its error, a rejection is
\* never replaced by a later error, and a step in which an entry fails
\* leaves every other entry where it was.
C13_FirstErrorWins ==
    [][/\ setupState = "rejected" =>
            setupState' = "rejected" /\ setupErr' = setupErr
       /\ \A i \in Indices :
            (entry[i].pc # "failed" /\ entry'[i].pc = "failed") =>
                /\ setupState = "pending" =>
                      setupState' = "rejected" /\ setupErr' = entry'[i].err
                /\ \A j \in Indices \ {i} : entry'[j] = entry[j]]_vars

\* Setup rejected by one entry, and a sibling that went on and failed later
\* with another error.
C13_Witness ==
    /\ setupState = "rejected"
    /\ \E i, j \in Indices :
          /\ entry[i].pc = "failed" /\ entry[i].err = setupErr
          /\ entry[j].pc = "failed" /\ entry[j].err # setupErr

\* C14: when the controlling process has ended, by exit or by a signal,
\* every spawned process that was not stopped is dead.
C14_ExitKillsTree ==
    (ctl.state = "exited" /\ ctl.cause \in {"exit", "signal"}) =>
        \A p \in Pids : procs[p].stops = 0 => procs[p].status = "dead"

\* C15: a teardown called with a command has executed it by the time it has
\* completed.
C15_PostCommandRuns ==
    (td.state = "done" /\ td.command) => td.ran

EnvOverrides(i) ==
    IF "env" \in DOMAIN Config(i).options THEN Config(i).options.env ELSE NoKeys

C17_StopNeverExits ==
    [][/\ \A p \in DOMAIN procs' : procs'[p].stops > 0 => ~procs'[p].hooks
       /\ td' # td => (cleanExits' \subseteq cleanExits /\ ctl' = ctl)]_vars

\* A child stopped twice and killed, the controlling process still running.
C17_Witness ==
    /\ ctl.state = "running"
    /\ td.state = "done"
    /\ \E p \in Pids :
          procs[p].stops = 2 /\ procs[p].status = "dead" /\ ~procs[p].hooks

InConflictCheck(i) == entry[i].pc \in {"probing", "prompting", "lookup", "killing"}

\* C18: in an entry with a port, nothing is spawned or registered and no
\* readiness wait has started while the probe or the conflict resolution is
\* under way; a process is spawned only after the probe, and after the kill
\* of the occupant (confirmed, under ask) if the port was taken; and the
\* readiness wait starts only after the probe and the spawn or the skip.
C18_OrderWithinEntry ==
    \A i \in Indices :
        TruthyNumber(Config(i).port) =>
            /\ InConflictCheck(i) =>
                  ~Spawned(i) /\ servers[i] = 0 /\ ~entry[i].waited
            /\ Spawned(i) =>
                  /\ entry[i].probed
                  /\ entry[i].taken =>
                        /\ entry[i].looked /\ entry[i].killSent
                        /\ Config(i).usedPortAction = "ask" =>
                              entry[i].asked /\ entry[i].answer
            /\ entry[i].waited =>
                  /\ entry[i].probed
                  /\ Spawned(i) \/ SkipsSpawn(Config(i).usedPortAction, entry[i].taken)

\* One entry already waiting for the readiness of the process it spawned
\* after killing the occupant of its port, a sibling still being probed.
C18_Witness ==
    \E i, j \in Indices :
        /\ i # j
        /\ entry[i].taken /\ entry[i].killSent /\ Spawned(i) /\ entry[i].waited
        /\ entry[j].pc = "probing"

\* C19: a step that changes servers[i] fills a hole, with a process spawned
\* in that step for entry i, and a filled servers[i] is never changed.
C19_WrittenOnce ==
    [][\A i \in Indices :
          /\ servers[i] # 0 => servers'[i] = servers[i]
          /\ servers'[i] # servers[i] =>
                /\ ~Spawned(i)
                /\ entry'[i].pid = servers'[i]
                /\ servers'[i] \notin Pids
                /\ procs'[servers'[i]].owner = i]_vars

\* Two entries registered in the reverse of their index order: the second
\* one spawned first.
C19_Witness ==
    \E i, j \in Indices :
        i < j /\ servers[i] # 0 /\ servers[j] # 0 /\ servers[j] < servers[i]

\* C20: at most one confirmation prompt is open at any time.
C20_OnePromptAtATime ==
    Cardinality({i \in Indices : entry[i].pc = "prompting"}) <= 1

\* C21: the port probe never fails its entry: no entry has failed with the
\* rejection of the probe.
C21_ProbeNeverFails ==
    \A i \in Indices : entry[i].pc = "failed" => entry[i].err # BindError

SetupSettled == setupState \in {"resolved", "rejected"}

C23_UnstoppedAreRegistered ==
    \A p \in Pids :
        (procs[p].stops = 0 /\ procs[p].status # "dead") => p \in Registered

\* C24: once setup has settled and a teardown has completed without a
\* failed kill, no process spawned for that setup is running.
C24_NothingRunsAfterTeardown ==
    (SetupSettled /\ td.state = "done" /\ ~td.failed) =>
        \A p \in Pids : procs[p].status = "dead"

\* C25: only a child that was never stopped starts a clean exit when it
\* ends by itself; and when the callback of that clean exit ends the
\* controlling process, the child is dead and the exit code is the child's
\* exit code, 1 after an 'error'.
C25_ChildExitPropagates ==
    [][/\ \A p \in cleanExits' \ cleanExits :
            procs[p].hooks /\ procs[p].stops = 0
       /\ (ctl.state = "running" /\ ctl'.state = "exited" /\ ctl'.cause = "child") =>
            /\ cleanExits # {}
            /\ \A p \in cleanExits : procs'[p].status = "dead"
            /\ ctl'.event.kind \in {"exit", "error"}
            /\ ctl'.code = IF ctl'.event.kind = "error" THEN 1 ELSE ctl'.event.code]_vars

\* The controlling process ended with 1 on the 'error' of a child that was
\* never stopped.
C25_Witness ==
    /\ ctl.state = "exited"
    /\ ctl.cause = "child"
    /\ ctl.event.kind = "error"
    /\ ctl.code = 1
    /\ \E p \in Pids : procs[p].status = "dead" /\ procs[p].stops = 0

\* C26: when a child's clean exit has ended the controlling process, every
\* managed process that was not stopped is dead.
C26_ExitLeavesNothing ==
    (ctl.state = "exited" /\ ctl.cause = "child") =>
        \A p \in Pids : procs[p].stops = 0 => procs[p].status = "dead"

====
